---- MODULE Spec2Model ----
(***************************************************************************)
(* EventEmitter (src/EventEmitter.js): the listener registry and the       *)
(* synchronous dispatch engine, as a small-step state machine.             *)
(*                                                                         *)
(* JavaScript is single threaded, but listeners re-enter the emitter while *)
(* a dispatch is running.  The model therefore keeps the call stack of the *)
(* emitter's own activations (stack) and runs one loop iteration or one    *)
(* continuation of the topmost activation per step.  A user call (an       *)
(* action named User...) starts only when the stack is empty.              *)
(*                                                                         *)
(* Values are strings: a listener is the name of a function, a once-       *)
(* wrapper is the name of a closure created by once() ("w1", ...), event   *)
(* arguments are "v1".."v5".  The bodies of the user's functions are the   *)
(* inputs of the model (Body).                                             *)
(***************************************************************************)
EXTENDS Integers, Sequences, FiniteSets, TLC

VARIABLES
    cast,           \* what the user of this emitter registers and emits
    _events,        \* this._events: event name -> listeners array (or absent)
    _maxListeners,  \* this._maxListeners
    wrappers,       \* the closures created by once(): event, listener, fired
    stack,          \* activations of the emitter's methods, innermost last
    call,           \* the user call being run, or the last one run
    pre,            \* this._events and the closures when that user call started
    trace,          \* the function invocations made during that user call
    console,        \* the console.error warnings printed during that call
    result          \* how that user call ended

vars == <<cast, _events, _maxListeners, wrappers, stack, call, pre, trace, console, result>>

(***************************************************************************)
(* Bounds of the model.                                                    *)
(***************************************************************************)
MaxLen == 3         \* listeners per array
MaxDepth == 4       \* activations on the stack
MaxWrappers == 2    \* once-wrappers alive at the same time
MaxLeak == 12       \* listeners per array of the user who fills one past the default maximum

(***************************************************************************)
(* Values.                                                                 *)
(***************************************************************************)
EventNames == {"x", "error", "newListener", "removeListener"}

WrapperNames == <<"w1", "w2", "w3", "w4">>
WrapperIds == {WrapperNames[i] : i \in 1..MaxWrappers}

Undefined == "undefined"
NotCallable == "notAFunction"        \* a listener argument that is no function

\* The user's plain functions.
Fns == {"a", "b", "selfRm", "rmB", "addB", "clear", "clearAll", "boom", "reemit"}

\* typeof v === 'function'
IsFunction(v) == v \in Fns \cup WrapperIds

\* What each user function does when it is invoked (this = the emitter).
Body(f) ==
    CASE f = "selfRm"   -> [op |-> "removeListener",     event |-> "x", fn |-> "selfRm"]
      [] f = "rmB"      -> [op |-> "removeListener",     event |-> "x", fn |-> "b"]
      [] f = "addB"     -> [op |-> "addListener",        event |-> "x", fn |-> "b"]
      [] f = "clear"    -> [op |-> "removeAllListeners", event |-> "x", fn |-> ""]
      [] f = "clearAll" -> [op |-> "removeAllListeners0", event |-> "", fn |-> ""]
      [] f = "boom"     -> [op |-> "throw",              event |-> "", fn |-> "boom"]
      [] f = "reemit"   -> [op |-> "emit",               event |-> "x", fn |-> ""]
      [] OTHER          -> [op |-> "return",             event |-> "", fn |-> ""]

\* The user functions that only return.
Inert == {f \in Fns : Body(f).op = "return"}

\* The argument lists of a user's emit: arguments.length is 1, 2 and 6.
ArgLists == {<<>>, <<"v1">>, <<"v1", "v2", "v3", "v4", "v5">>}

\* arguments[i] of a call with the argument list args after the event name
Arg(args, i) == IF i <= Len(args) THEN args[i] ELSE Undefined

\* EventEmitter.defaultMaxListeners
defaultMaxListeners == 10

\* this.domain after EventEmitter.init
domain == "null"

NumberVal(n) == [t |-> "number", n |-> n]
UndefinedVal == [t |-> "undefined", n |-> 0]
NaNVal == [t |-> "NaN", n |-> 0]

(***************************************************************************)
(* The users of the emitter.  Each behaviour has one user (cast): the      *)
(* event names it uses, the functions it registers for "x" (fns) and for   *)
(* the other event names (obs), the functions it hands to once, the        *)
(* argument lists it emits and the values it gives setMaxListeners.        *)
(***************************************************************************)
User(name, events, fns, obs, oncefns, args, maxes) ==
    [name |-> name, events |-> events, fns |-> fns, obs |-> obs,
     oncefns |-> oncefns, args |-> args, maxes |-> maxes]

Casts ==
    { User("order", {"x"}, {"a", "b"}, {}, {"a"}, ArgLists, {}),
      User("dispatch", {"x"},
           {"selfRm", "rmB", "addB", "clear", "clearAll", "a", "b"}, {}, {"a"}, {<<>>}, {}),
      User("error", {"x", "error"}, {"a"}, {"a"}, {"a"}, {<<>>, <<"v1">>}, {}),
      User("observeRemove", {"x", "error", "removeListener"}, {"a"}, {"a"}, {},
           {<<>>}, {}),
      User("observeLifo", {"x", "removeListener"}, {"a", "b"}, {"a"}, {}, {<<>>}, {}),
      User("observeOnce", {"x", "removeListener"}, {"a"}, {"a"}, {"a"}, {<<>>}, {}),
      User("observeNew", {"x", "newListener"}, {"a"}, {"a"}, {"a"}, {<<>>}, {}),
      User("throw", {"x"}, {"boom", "a"}, {}, {"boom"}, {<<"v1">>}, {}),
      User("nested", {"x"}, {"reemit", "a"}, {}, {"reemit", "a"}, {<<>>}, {}),
      User("max", {"x"}, {"a"}, {}, {}, {<<>>},
           {NumberVal(0), NumberVal(2), NumberVal(-1), NaNVal}) }

UserFns(e) == IF e = "x" THEN cast.fns ELSE cast.obs

\* How long this user lets an array grow.
LenBound == IF cast.name = "max" THEN MaxLeak ELSE MaxLen

(***************************************************************************)
(* The registry.  A listeners array is [present, items, warned]; an absent *)
(* key has present = FALSE.                                                *)
(***************************************************************************)
NoArray == [present |-> FALSE, items |-> <<>>, warned |-> FALSE]
NewArray == [present |-> TRUE, items |-> <<>>, warned |-> FALSE]
EmptyEvents == [e \in EventNames |-> NoArray]

NoWrapper == [event |-> "", listener |-> "", fired |-> FALSE]

Keys(ev) == {e \in EventNames : ev[e].present}

\* The entry itself, its listener property ignored.
OriginalEntry(wr, entry) == entry

\* listeners[index].listener || listeners[index]
Original(wr, entry) == IF entry \in WrapperIds THEN wr[entry].listener ELSE entry

(***************************************************************************)
(* Activations.  emit and removeAllListeners(event) hold the array they    *)
(* read in a local variable `listeners`.  While that array is the one the  *)
(* map holds for the event, the frame is live and reads it through the     *)
(* map.  When the key is deleted or the map is replaced, the array is no   *)
(* longer reachable by addListener or removeListener and never changes     *)
(* again: the frame then keeps it by value (snap).                         *)
(***************************************************************************)
Frame(op, event) ==
    [op |-> op, event |-> event, entry |-> "", args |-> <<>>,
     live |-> TRUE, snap |-> <<>>, length |-> 0, index |-> 0,
     pc |-> "keys", todo |-> {}, visited |-> {}, may |-> {}]

\* The array a frame's `listeners` variable refers to.
FrameArray(ev, f) == IF f.live THEN ev[f.event].items ELSE f.snap

\* delete this._events[k], seen from the frames that hold the array
DetachKey(st, ev, k) ==
    [i \in DOMAIN st |->
        IF st[i].op \in {"emit", "removeAllListeners"} /\ st[i].live /\ st[i].event = k
        THEN [st[i] EXCEPT !.live = FALSE, !.snap = ev[k].items]
        ELSE IF st[i].op = "forin" /\ st[i].live
        THEN [st[i] EXCEPT !.todo = @ \ {k}]
        ELSE st[i]]

\* this._events = {}, seen from the frames that hold an array or enumerate the old map
DetachAll(st, ev) ==
    [i \in DOMAIN st |->
        IF st[i].op \in {"emit", "removeAllListeners"} /\ st[i].live
        THEN [st[i] EXCEPT !.live = FALSE, !.snap = ev[st[i].event].items]
        ELSE IF st[i].op = "forin" /\ st[i].live
        THEN [st[i] EXCEPT !.live = FALSE,
                           !.may = (Keys(ev) \ st[i].visited) \ st[i].todo]
        ELSE st[i]]

(***************************************************************************)
(* The machine: the part of the state a method call reads and writes.      *)
(*   ev, wr, st   this._events, the once closures, the stack               *)
(*   tr, con      invocations and warnings logged so far                   *)
(*   ret          the value the last finished activation returned          *)
(*   res          set when an exception escaped to the user                *)
(*   ok           FALSE when a bound of the model was exceeded             *)
(***************************************************************************)
Pending == [kind |-> "pending", val |-> ""]
Returned(v) == [kind |-> "return", val |-> v]
Thrown(v) == [kind |-> "throw", val |-> v]

Push(m, f) ==
    IF Len(m.st) >= MaxDepth THEN [m EXCEPT !.ok = FALSE]
    ELSE [m EXCEPT !.st = Append(@, f)]

Pop(m) == [m EXCEPT !.st = SubSeq(@, 1, Len(@) - 1)]

Top(st) == st[Len(st)]

\* No method of the emitter and no user function catches: the stack unwinds.
Throw(m, v) == [m EXCEPT !.st = <<>>, !.res = Thrown(v)]

Return(m, v) == [m EXCEPT !.ret = v]

Depth(st) == Cardinality({i \in DOMAIN st : st[i].op = "emit"})

Log(m, fn, args, via) ==
    [m EXCEPT !.tr = Append(@, [fn |-> fn, args |-> args,
                                depth |-> Depth(m.st), via |-> via])]

(***************************************************************************)
(* EventEmitter.prototype.emit, up to the loop: the lookup, the exits when *)
(* there is no listener, and otherwise the new activation with the         *)
(* captured array, its length and index = 0.                               *)
(***************************************************************************)
\* emit without the "error" exit: an unhandled error returns false.
emitSwallow(m, event, args) ==
    LET listeners == m.ev[event]
        length == IF listeners.present THEN Len(listeners.items) ELSE 0
    IN  IF length = 0 THEN Return(m, "false")
        ELSE Push(m, [Frame("emit", event) EXCEPT !.args = args, !.length = length])

emit(m, event, args) ==
    LET listeners == m.ev[event]
        length == IF listeners.present THEN Len(listeners.items) ELSE 0
    IN  IF length = 0
        THEN IF event = "error"
             THEN IF domain # "null"
                  THEN Return(m, "false")      \* handed to this.domain
                  ELSE Throw(m, Arg(args, 1))  \* throw error
             ELSE Return(m, "false")
        ELSE Push(m, [Frame("emit", event) EXCEPT !.args = args, !.length = length])

\* PassedArgs with a default branch that forwards four arguments only.
PassedArgsFour(args) ==
    IF Len(args) <= 4 THEN [i \in 1..Len(args) |-> args[i]]
    ELSE <<args[1], args[2], args[3], args[4]>>

\* The arguments emit's switch on arguments.length hands to each listener.
PassedArgs(args) ==
    CASE Len(args) + 1 = 1 -> <<>>
      [] Len(args) + 1 = 2 -> <<args[1]>>
      [] Len(args) + 1 = 3 -> <<args[1], args[2]>>
      [] Len(args) + 1 = 4 -> <<args[1], args[2], args[3]>>
      [] Len(args) + 1 = 5 -> <<args[1], args[2], args[3], args[4]>>
      [] OTHER -> [i \in 1..Len(args) |-> args[i]]

(***************************************************************************)
(* EventEmitter.prototype.removeListener.  Indices are 1-based here: the   *)
(* result 0 of ScanBack is the -1 of the source.                           *)
(***************************************************************************)
\* A scan that stops at the first match from the front.
ScanFirst(wr, items, listener, index) ==
    LET hits == {i \in 1..index : listener = Original(wr, items[i])}
    IN  IF hits = {} THEN 0 ELSE CHOOSE i \in hits : \A j \in hits : i <= j

RECURSIVE ScanBack(_, _, _, _)
ScanBack(wr, items, listener, index) ==
    IF index = 0 THEN 0
    ELSE IF listener = Original(wr, items[index]) THEN index
    ELSE ScanBack(wr, items, listener, index - 1)

\* splice that removes nothing.
SpliceNone(items, index) == items

\* listeners.splice(index, 1)
Splice(items, index) ==
    SubSeq(items, 1, index - 1) \o SubSeq(items, index + 1, Len(items))

removeListener(m, event, listener) ==
    LET listeners == m.ev[event]
        index == IF listeners.present
                 THEN ScanBack(m.wr, listeners.items, listener, Len(listeners.items))
                 ELSE 0
        m1 == [m EXCEPT !.ev[event].items = Splice(@, index)]
        args == <<event, listener>>
        m2 == emit(m1, "removeListener", args)
    IN  IF ~IsFunction(listener) THEN Throw(m, "TypeError")
        ELSE IF index = 0 THEN Return(m, "this")
        ELSE IF m2.st = m1.st THEN Return(m2, "this")
        ELSE emit(Push(m1, Frame("removeListener", event)), "removeListener", args)

(***************************************************************************)
(* EventEmitter.prototype.addListener: the emit of "newListener", then     *)
(* (AddListenerPush) the push and the leak warning.                        *)
(***************************************************************************)
\* AddListenerPush without the array's warned flag in the test.
AddListenerPushRewarn(m, event, listener) ==
    LET listeners == IF m.ev[event].present THEN m.ev[event] ELSE NewArray
        max == IF _maxListeners.t # "undefined" THEN _maxListeners.n
               ELSE defaultMaxListeners
        count == Len(listeners.items) + 1
        warn == max > 0 /\ count > max
        m1 == [m EXCEPT !.ev[event] = [present |-> TRUE,
                                       items |-> Append(listeners.items, listener),
                                       warned |-> listeners.warned \/ warn],
                        !.con = IF warn THEN Append(@, [count |-> count, event |-> event])
                                ELSE @,
                        !.ok = @ /\ count <= LenBound]
    IN  Return(m1, "this")

AddListenerPush(m, event, listener) ==
    LET listeners == IF m.ev[event].present THEN m.ev[event] ELSE NewArray
        max == IF _maxListeners.t # "undefined" THEN _maxListeners.n
               ELSE defaultMaxListeners
        count == Len(listeners.items) + 1
        warn == max > 0 /\ ~listeners.warned /\ count > max
        m1 == [m EXCEPT !.ev[event] = [present |-> TRUE,
                                       items |-> Append(listeners.items, listener),
                                       warned |-> listeners.warned \/ warn],
                        !.con = IF warn THEN Append(@, [count |-> count, event |-> event])
                                ELSE @,
                        !.ok = @ /\ count <= LenBound]
    IN  Return(m1, "this")

\* addListener without its typeof check.
addListenerUnchecked(m, event, listener) ==
    LET original == IF listener \in WrapperIds THEN m.wr[listener].listener
                    ELSE listener
        args == <<event, original>>
        m1 == emit(m, "newListener", args)
    IN  IF m1.st = m.st THEN AddListenerPush(m1, event, listener)
        ELSE emit(Push(m, [Frame("addListener", event) EXCEPT !.entry = listener]),
                  "newListener", args)

\* addListener that pushes the listener before it emits "newListener".
addListenerPushFirst(m, event, listener) ==
    LET original == IF listener \in WrapperIds THEN m.wr[listener].listener
                    ELSE listener
        args == <<event, original>>
        m0 == AddListenerPush(m, event, listener)
        m1 == emit(m0, "newListener", args)
    IN  IF ~IsFunction(listener) THEN Throw(m, "TypeError")
        ELSE IF m1.st = m0.st THEN Return(m1, "this")
        ELSE emit(Push(m0, Frame("removeListener", event)), "newListener", args)

addListener(m, event, listener) ==
    LET original == IF listener \in WrapperIds THEN m.wr[listener].listener
                    ELSE listener
        args == <<event, original>>
        m1 == emit(m, "newListener", args)
    IN  IF ~IsFunction(listener) THEN Throw(m, "TypeError")
        ELSE IF m1.st = m.st THEN AddListenerPush(m1, event, listener)
        ELSE emit(Push(m, [Frame("addListener", event) EXCEPT !.entry = listener]),
                  "newListener", args)

(***************************************************************************)
(* EventEmitter.prototype.once: the closure w (fired = false, its listener *)
(* property set) is registered with this.on.                               *)
(***************************************************************************)
once(m, event, listener, w) ==
    IF ~IsFunction(listener) THEN Throw(m, "TypeError")
    ELSE addListener([m EXCEPT !.wr[w] = [event |-> event, listener |-> listener,
                                          fired |-> FALSE]],
                     event, w)

(***************************************************************************)
(* EventEmitter.prototype.removeAllListeners, with an event name           *)
(* (removeAllListeners) and without arguments (removeAllListeners0).       *)
(***************************************************************************)
removeAllListeners(m, event) ==
    IF m.ev[event].present
    THEN Push(m, Frame("removeAllListeners", event))
    ELSE Return(m, "this")

\* removeAllListeners() that only resets the map.
removeAllListeners0Reset(m) ==
    Return([m EXCEPT !.st = DetachAll(m.st, m.ev), !.ev = EmptyEvents], "this")

removeAllListeners0(m) ==
    IF m.ev["removeListener"].present
    THEN Push(m, [Frame("forin", "") EXCEPT !.todo = Keys(m.ev)])
    ELSE Return([m EXCEPT !.st = DetachAll(m.st, m.ev), !.ev = EmptyEvents], "this")

\* EventEmitter.prototype.listeners: a copy of the array, or [].
Listeners(ev, event) ==
    IF ev[event].present
    THEN [i \in 1..Len(ev[event].items) |-> ev[event].items[i]]
    ELSE <<>>

(***************************************************************************)
(* Calling a user function, and the closure once() creates.                *)
(***************************************************************************)
\* apply under a caller that catches what the function throws.
applyCaught(m, fn, args, via) ==
    LET b == Body(fn)
        m1 == Log(m, fn, args, via)
    IN  CASE b.op = "throw" -> Return(m1, Undefined)
          [] b.op = "removeListener" -> removeListener(m1, b.event, b.fn)
          [] b.op = "addListener" -> addListener(m1, b.event, b.fn)
          [] b.op = "removeAllListeners" -> removeAllListeners(m1, b.event)
          [] b.op = "removeAllListeners0" -> removeAllListeners0(m1)
          [] b.op = "emit" -> emit(m1, b.event, <<>>)
          [] OTHER -> Return(m1, Undefined)

apply(m, fn, args, via) ==
    LET b == Body(fn)
        m1 == Log(m, fn, args, via)
    IN  CASE b.op = "throw" -> Throw(m1, b.fn)
          [] b.op = "removeListener" -> removeListener(m1, b.event, b.fn)
          [] b.op = "addListener" -> addListener(m1, b.event, b.fn)
          [] b.op = "removeAllListeners" -> removeAllListeners(m1, b.event)
          [] b.op = "removeAllListeners0" -> removeAllListeners0(m1)
          [] b.op = "emit" -> emit(m1, b.event, <<>>)
          [] OTHER -> Return(m1, Undefined)

\* The closure without its fired test.
OnceFireUnguarded(m, w, args) ==
    apply([m EXCEPT !.wr[w].fired = TRUE], m.wr[w].listener, args, w)

\* if (!fired) { fired = true; listener.apply(this, arguments); }
OnceFire(m, w, args) ==
    IF ~m.wr[w].fired
    THEN apply([m EXCEPT !.wr[w].fired = TRUE], m.wr[w].listener, args, w)
    ELSE Return(m, Undefined)

\* The closure's call of this.removeListener(event, once); OnceFire is what
\* the closure does when that call has returned.
OnceWrapper(m, w, args) ==
    LET event == m.wr[w].event
    IN  removeListener(
            Push(Log(m, w, args, ""),
                 [Frame("once", event) EXCEPT !.entry = w, !.args = args]),
            event, w)

\* listeners[index].call(this, ...)
Invoke(m, entry, args) ==
    IF entry \in WrapperIds THEN OnceWrapper(m, entry, args)
    ELSE apply(m, entry, args, "")

(***************************************************************************)
(* One step of the topmost activation.                                     *)
(***************************************************************************)
\* emit: while (index < length) { listeners[index] && listeners[index++].call(...) }
EmitStep(m) ==
    LET f == Top(m.st)
        listeners == FrameArray(m.ev, f)
    IN  IF f.index < f.length
        THEN IF f.index < Len(listeners)
             THEN Invoke([m EXCEPT !.st[Len(m.st)].index = @ + 1],
                         listeners[f.index + 1], PassedArgs(f.args))
             ELSE m
        ELSE Return(Pop(m), "true")

\* RemoveAllStep that hands removeListener the first entry instead of the last.
RemoveAllStepFifo(m) ==
    LET f == Top(m.st)
        listeners == FrameArray(m.ev, f)
        m1 == Pop(m)
    IN  IF Len(listeners) > 0
        THEN removeListener(m, f.event, listeners[1])
        ELSE Return([m1 EXCEPT !.st = DetachKey(m1.st, m1.ev, f.event),
                               !.ev[f.event] = NoArray], "this")

\* removeAllListeners(event): while (listeners.length) ...; delete this._events[event]
RemoveAllStep(m) ==
    LET f == Top(m.st)
        listeners == FrameArray(m.ev, f)
        m1 == Pop(m)
    IN  IF Len(listeners) > 0
        THEN removeListener(m, f.event, listeners[Len(listeners)])
        ELSE Return([m1 EXCEPT !.st = DetachKey(m1.st, m1.ev, f.event),
                               !.ev[f.event] = NoArray], "this")

\* removeAllListeners(): the keys for (var key in this._events) has still to visit,
\* and those (added during the enumeration) it may visit or not
ForinMay(ev, f) == IF f.live THEN (Keys(ev) \ f.visited) \ f.todo ELSE f.may

ForinVisit(m, key) ==
    LET i == Len(m.st)
        m1 == [m EXCEPT !.st[i].visited = @ \cup {key},
                        !.st[i].todo = @ \ {key},
                        !.st[i].may = @ \ {key}]
    IN  IF key # "removeListener" THEN removeAllListeners(m1, key) ELSE m1

\* this.removeAllListeners('removeListener')
ForinLast(m) ==
    removeAllListeners([m EXCEPT !.st[Len(m.st)].pc = "clear"], "removeListener")

\* this._events = {}
ForinClear(m) ==
    LET m1 == Pop(m)
    IN  Return([m1 EXCEPT !.st = DetachAll(m1.st, m1.ev), !.ev = EmptyEvents], "this")

(***************************************************************************)
(* The state machine.                                                      *)
(***************************************************************************)
Init ==
    /\ cast \in Casts
    /\ _events = EmptyEvents        \* EventEmitter.init: this._events = {}
    /\ _maxListeners = UndefinedVal
    /\ wrappers = [w \in WrapperIds |-> NoWrapper]
    /\ stack = <<>>
    /\ call = [op |-> "new", event |-> "", fn |-> "", args |-> <<>>]
    /\ pre = [ev |-> EmptyEvents, wr |-> [w \in WrapperIds |-> NoWrapper]]
    /\ trace = <<>>
    /\ console = <<>>
    /\ result = Returned("this")

\* The once closures the registry still holds; the others are garbage.
Registered(ev) ==
    {w \in WrapperIds : \E e \in EventNames : \E i \in DOMAIN ev[e].items : ev[e].items[i] = w}

\* The machine at the start of a user call.
Start ==
    [ev |-> _events,
     wr |-> [w \in WrapperIds |-> IF w \in Registered(_events) THEN wrappers[w] ELSE NoWrapper],
     st |-> <<>>, tr |-> <<>>, con |-> <<>>,
     ret |-> Undefined, res |-> Pending, ok |-> TRUE]

\* The machine in the middle of a user call.
Running ==
    [ev |-> _events, wr |-> wrappers, st |-> stack, tr |-> trace, con |-> console,
     ret |-> Undefined, res |-> result, ok |-> TRUE]

Commit(m) ==
    /\ m.ok
    /\ _events' = m.ev
    /\ wrappers' = m.wr
    /\ stack' = m.st
    /\ trace' = m.tr
    /\ console' = m.con
    /\ result' = IF m.st = <<>> /\ m.res.kind = "pending" THEN Returned(m.ret) ELSE m.res

Begin(op, event, fn, args) ==
    /\ stack = <<>>
    /\ call' = [op |-> op, event |-> event, fn |-> fn, args |-> args]
    /\ pre' = [ev |-> Start.ev, wr |-> Start.wr]
    /\ UNCHANGED cast

\* emitter.on(event, listener) / emitter.addListener(event, listener)
UserAddListener ==
    \E event \in cast.events : \E listener \in UserFns(event) \cup {NotCallable} :
        /\ Begin("addListener", event, listener, <<>>)
        /\ Commit(addListener(Start, event, listener))
        /\ UNCHANGED _maxListeners

\* emitter.once(event, listener): a new closure, registered with this.on
UserOnce ==
    \E event \in cast.events : \E listener \in (UserFns(event) \cap cast.oncefns) \cup {NotCallable} :
        /\ Begin("once", event, listener, <<>>)
        /\ \E i \in 1..MaxWrappers :
             /\ WrapperNames[i] \notin Registered(_events)
             /\ \A j \in 1..(i - 1) : WrapperNames[j] \in Registered(_events)
             /\ Commit(once(Start, event, listener, WrapperNames[i]))
        /\ UNCHANGED _maxListeners

\* emitter.off(event, listener) / emitter.removeListener(event, listener)
UserRemoveListener ==
    \E event \in cast.events : \E listener \in UserFns(event) \cup {NotCallable} :
        /\ Begin("removeListener", event, listener, <<>>)
        /\ Commit(removeListener(Start, event, listener))
        /\ UNCHANGED _maxListeners

\* emitter.removeAllListeners(event)
UserRemoveAllListeners ==
    \E event \in cast.events :
        /\ Begin("removeAllListeners", event, "", <<>>)
        /\ Commit(removeAllListeners(Start, event))
        /\ UNCHANGED _maxListeners

\* emitter.removeAllListeners()
UserRemoveAllListeners0 ==
    /\ Begin("removeAllListeners0", "", "", <<>>)
    /\ Commit(removeAllListeners0(Start))
    /\ UNCHANGED _maxListeners

\* emitter.emit(event, ...args)
UserEmit ==
    \E event \in cast.events : \E args \in cast.args :
        /\ Begin("emit", event, "", args)
        /\ Commit(emit(Start, event, args))
        /\ UNCHANGED _maxListeners

\* !typeof n === 'number' || n < 0 || isNaN(n): (!typeof n) is false for every n
SetMaxListenersRejects(n) == (n.t = "number" /\ n.n < 0) \/ n.t = "NaN"

\* emitter.setMaxListeners(n)
UserSetMaxListeners ==
    \E n \in cast.maxes :
        /\ Begin("setMaxListeners", "", "", <<>>)
        /\ IF SetMaxListenersRejects(n)
           THEN Commit(Throw(Start, "TypeError")) /\ UNCHANGED _maxListeners
           ELSE Commit(Return(Start, "this")) /\ _maxListeners' = n

Step(op) ==
    /\ stack # <<>>
    /\ Top(stack).op = op
    /\ UNCHANGED <<cast, call, pre, _maxListeners>>

\* One iteration of emit's loop, or its return.
EmitLoop == Step("emit") /\ Commit(EmitStep(Running))

\* addListener after its emit of "newListener" returned.
AddListenerResume ==
    /\ Step("addListener")
    /\ Commit(AddListenerPush(Pop(Running), Top(stack).event, Top(stack).entry))

\* removeListener after its emit of "removeListener" returned: return this.
RemoveListenerResume == Step("removeListener") /\ Commit(Return(Pop(Running), "this"))

\* The once closure after its removeListener returned.
OnceResume ==
    /\ Step("once")
    /\ Commit(OnceFire(Pop(Running), Top(stack).entry, Top(stack).args))

\* One iteration of removeAllListeners(event)'s loop, or its delete and return.
RemoveAllLoop == Step("removeAllListeners") /\ Commit(RemoveAllStep(Running))

\* removeAllListeners(): one key of the for-in loop, then "removeListener", then the reset.
RemoveAllKeys ==
    /\ Step("forin")
    /\ LET f == Top(stack) IN
         IF f.pc = "clear" THEN Commit(ForinClear(Running))
         ELSE \/ \E key \in f.todo \cup ForinMay(_events, f) : Commit(ForinVisit(Running, key))
              \/ f.todo = {} /\ Commit(ForinLast(Running))

Next ==
    \/ UserAddListener
    \/ UserOnce
    \/ UserRemoveListener
    \/ UserRemoveAllListeners
    \/ UserRemoveAllListeners0
    \/ UserEmit
    \/ UserSetMaxListeners
    \/ EmitLoop
    \/ AddListenerResume
    \/ RemoveListenerResume
    \/ OnceResume
    \/ RemoveAllLoop
    \/ RemoveAllKeys

Spec == Init /\ [][Next]_vars

(***************************************************************************)
(* Properties.                                                             *)
(***************************************************************************)
Done == stack = <<>>

\* The invocations made by the loop of the outermost emit, the closures'
\* calls of their listeners left out.
Direct(tr) == SelectSeq(tr, LAMBDA t : t.depth = 1 /\ t.via = "")

\* The invocations a once closure made of its listener.
Via(tr, w) == SelectSeq(tr, LAMBDA t : t.via = w)

FnsOf(tr) == [i \in 1..Len(tr) |-> tr[i].fn]

Range(s) == {s[i] : i \in DOMAIN s}

Reverse(s) == [i \in 1..Len(s) |-> s[Len(s) + 1 - i]]

Distinct(s) == \A i, j \in DOMAIN s : s[i] = s[j] => i = j

IsPrefix(s, t) == Len(s) <= Len(t) /\ \A i \in 1..Len(s) : s[i] = t[i]

\* The sequence for the event of the user call, when the call started.
PreItems == IF call.event \in EventNames THEN pre.ev[call.event].items ELSE <<>>

Invocation(fn, args) == [fn |-> fn, args |-> args, depth |-> 1, via |-> ""]

\* The topmost activation is emit's loop at an index the array no longer has:
\* listeners[index] is undefined, index is not advanced, and the iteration
\* changes nothing, so the loop runs it again and again.
Spinning ==
    /\ stack # <<>>
    /\ Top(stack).op = "emit"
    /\ Top(stack).index < Top(stack).length
    /\ Top(stack).index >= Len(FrameArray(_events, Top(stack)))

(* C1: on(e, f) appends f to the sequence for e, and an emit(e, args) whose
   listeners only return invokes the sequence f1, ..., fn in that order, each
   once and with args, and returns true. *)
C1_RegistrationOrder ==
    /\ (call.op = "addListener" /\ Done /\ result = Returned("this")
          /\ pre.ev["newListener"].items = <<>>)
       => _events[call.event].items = Append(PreItems, call.fn)
    /\ (call.op = "emit" /\ PreItems # <<>> /\ Range(PreItems) \subseteq Inert)
       => LET n == IF Done THEN Len(PreItems) ELSE stack[1].index
          IN  /\ trace = [i \in 1..n |-> Invocation(PreItems[i], call.args)]
              /\ Done => result = Returned("true")
              /\ ~Done => Len(stack) = 1 /\ result = Pending

C1_Witness ==
    /\ Done /\ call.op = "emit" /\ call.args = <<"v1", "v2", "v3", "v4", "v5">>
    /\ PreItems = <<"a", "b", "a">>
    /\ Len(trace) = 3
    /\ result = Returned("true")

(* C2: when a listener removes itself during emit(e), a listener that is
   still registered for e is never passed over (no listener registered after
   it runs while it has not run, and at the end of the round it has run) and
   never runs twice. *)
C2_SelfRemovalSkipsNobody ==
    (call.op = "emit" /\ "selfRm" \in Range(PreItems) /\ Distinct(PreItems)
       /\ Range(PreItems) \subseteq Inert \cup {"selfRm"})
    => LET ran == FnsOf(Direct(trace))
           still(i) == PreItems[i] \in Range(_events[call.event].items)
       IN  /\ Distinct(ran)
           /\ \A i, j \in DOMAIN PreItems :
                (i < j /\ PreItems[j] \in Range(ran) /\ still(i))
                => PreItems[i] \in Range(ran)
           /\ Done => \A i \in DOMAIN PreItems : still(i) => PreItems[i] \in Range(ran)

(* C3: emit returns to its caller whenever the listeners it invokes return:
   its loop never reaches a state in which it can only repeat the same
   iteration. *)
C3_EmitLoopTerminates == ~Spinning

(* C4: a closure registered by once(e, f) starts unfired; the first emit(e)
   that returns after it invokes f through the closure exactly once, with the
   arguments of the emit, and every later emit(e) does not invoke f through
   it. *)
C4_OnceFiresOnce ==
    /\ (call.op = "once" /\ Done /\ result = Returned("this"))
       => \A w \in Registered(_events) \ Registered(pre.ev) :
            wrappers[w] = [event |-> call.event, listener |-> call.fn, fired |-> FALSE]
    /\ \A w \in Registered(pre.ev) \cap Registered(_events) :
         pre.wr[w].fired => wrappers[w].fired
    /\ (call.op = "emit" /\ Done /\ result.kind = "return")
       => \A w \in WrapperIds \cap Range(PreItems) :
            IF pre.wr[w].fired THEN Via(trace, w) = <<>>
            ELSE /\ Len(Via(trace, w)) = 1
                 /\ Via(trace, w)[1].fn = pre.wr[w].listener
                 /\ Via(trace, w)[1].args = call.args
                 /\ wrappers[w].fired

(* C5: once the closure of once(e, f) has fired, it is no longer in the
   sequence for e: it removed itself before f ran. *)
C5_OnceRemovedBeforeListenerRuns ==
    \A w \in WrapperIds :
        wrappers[w].fired => w \notin Range(_events[wrappers[w].event].items)

(* C6: emit("error", err) with no "error" listener throws err and never
   returns false; with one "error" listener it invokes that listener with err
   and returns true. *)
C6_UnhandledErrorThrows ==
    (call.op = "emit" /\ call.event = "error")
    => /\ PreItems = <<>>
          => Done /\ result = Thrown(Arg(call.args, 1)) /\ trace = <<>>
       /\ (Len(PreItems) = 1 /\ Done)
          => /\ result = Returned("true")
             /\ trace # <<>> /\ trace[1] = Invocation(PreItems[1], call.args)
             /\ Direct(trace) = <<trace[1]>>

C6_Witness ==
    /\ Done /\ call.op = "emit" /\ call.event = "error" /\ call.args = <<"v1">>
    /\ PreItems = <<>>
    /\ result = Thrown("v1")

(* C7: removeAllListeners() on an emitter whose only "removeListener"
   listener is L invokes L once for each listener of every other event name,
   last registered first, never for L itself, and leaves the map empty. *)
C7_RemoveAllObserved ==
    (call.op = "removeAllListeners0" /\ Done /\ Len(pre.ev["removeListener"].items) = 1
       /\ pre.ev["removeListener"].items[1] \in Fns)
    => LET L == pre.ev["removeListener"].items[1]
           seen(e) == SelectSeq(trace, LAMBDA t : t.args[1] = e)
       IN  /\ result = Returned("this")
           /\ _events = EmptyEvents
           /\ \A i \in DOMAIN trace : trace[i].fn = L /\ Len(trace[i].args) = 2
           /\ seen("removeListener") = <<>>
           /\ \A e \in EventNames \ {"removeListener"} :
                [i \in 1..Len(seen(e)) |-> seen(e)[i].args[2]]
                  = Reverse([i \in 1..Len(pre.ev[e].items) |->
                               Original(pre.wr, pre.ev[e].items[i])])

C7_Witness ==
    /\ Done /\ call.op = "removeAllListeners0"
    /\ pre.ev["removeListener"].items = <<"a">>
    /\ Len(pre.ev["x"].items) = 2 /\ Len(pre.ev["error"].items) = 1
    /\ Len(trace) = 3
    /\ _events = EmptyEvents

(* C8: the listeners one emit(e) invokes are the sequence for e as it was
   when the call started, in that order: at every moment a prefix of it, and
   all of it when the call returns. *)
C8_SnapshotDispatch ==
    (call.op = "emit" /\ PreItems # <<>>)
    => /\ IsPrefix(FnsOf(Direct(trace)), PreItems)
       /\ (Done /\ result.kind = "return") => FnsOf(Direct(trace)) = PreItems

(* C9: for an event name e other than "error" with no listener, on(e, f)
   makes the sequence <<f>>, removeListener(e, f) then leaves listeners(e)
   empty, and an emit(e) on the empty sequence returns false and invokes
   nothing. *)
C9_RegisterRemoveLeavesNone ==
    /\ (call.op = "addListener" /\ Done /\ result = Returned("this") /\ PreItems = <<>>)
       => Listeners(_events, call.event) = <<call.fn>>
    /\ (call.op = "removeListener" /\ Done /\ call.fn \in Fns /\ PreItems = <<call.fn>>)
       => Listeners(_events, call.event) = <<>> /\ result = Returned("this")
    /\ (call.op = "emit" /\ call.event # "error" /\ PreItems = <<>>)
       => Done /\ result = Returned("false") /\ trace = <<>>

C9_Witness ==
    /\ Done /\ call.op = "removeListener" /\ call.event = "x" /\ call.fn = "a"
    /\ PreItems = <<"a">>
    /\ _events["x"].present /\ _events["x"].items = <<>>

(* C10: on, once and removeListener with a listener that is not a function
   throw a TypeError, leave the map and the closures as they were and
   dispatch nothing. *)
C10_TypeErrorBeforeMutation ==
    (call.op \in {"addListener", "once", "removeListener"} /\ call.fn = NotCallable)
    => /\ Done
       /\ result = Thrown("TypeError")
       /\ _events = pre.ev
       /\ wrappers = pre.wr
       /\ trace = <<>>

C10_Witness ==
    /\ call.op = "once" /\ call.fn = NotCallable
    /\ pre.ev["newListener"].items # <<>>
    /\ result = Thrown("TypeError")

(* C11: addListener with a function always returns this and appends it,
   whatever the maximum (this._maxListeners, else the default 10); it prints
   at most one warning, only when the count exceeds a positive maximum and
   the array has not warned yet, and the array then stays warned, so that
   no later registration warns again; with a maximum of 0 it prints none. *)
C11_LeakWarningOnce ==
    /\ (call.op = "addListener" /\ call.fn \in Fns /\ Done)
       => LET before == pre.ev[call.event]
              after == _events[call.event]
              count == Len(before.items) + 1
              max == IF _maxListeners.t # "undefined" THEN _maxListeners.n
                     ELSE defaultMaxListeners
          IN  /\ result = Returned("this")
              /\ after.items = Append(before.items, call.fn)
              /\ Len(console) <= 1
              /\ console # <<>> => ~before.warned /\ max > 0 /\ count > max
              /\ (before.warned \/ console # <<>>) => after.warned
              /\ _maxListeners = NumberVal(0) => console = <<>>
    /\ (call.op = "removeListener" /\ Done /\ pre.ev[call.event].warned)
       => _events[call.event].warned

C11_Witness ==
    /\ Done /\ call.op = "addListener" /\ call.event = "x"
    /\ _maxListeners = UndefinedVal
    /\ Len(pre.ev["x"].items) = 11 /\ pre.ev["x"].warned
    /\ Len(_events["x"].items) = 12
    /\ console = <<>>

(* C12: removeListener(e, f) with a function f removes the last entry of the
   sequence for e whose original listener is f and no other, the rest
   keeping its order; the entry is gone during the whole emit of
   "removeListener" that follows, which hands (e, f) once to each
   "removeListener" listener.  With no such entry, or no sequence for e, the
   map is unchanged and nothing is invoked. *)
C12_RemoveLastMatch ==
    (call.op = "removeListener" /\ call.fn \in Fns)
    => LET items == PreItems
           hits == {i \in DOMAIN items : Original(pre.wr, items[i]) = call.fn}
           last == CHOOSE i \in hits : \A j \in hits : j <= i
           rest == [i \in 1..(Len(items) - 1) |->
                      IF i < last THEN items[i] ELSE items[i + 1]]
           observers == _events["removeListener"].items
           told == Direct(trace)
       IN  IF hits = {}
           THEN Done /\ result = Returned("this") /\ _events = pre.ev /\ trace = <<>>
           ELSE /\ _events = [pre.ev EXCEPT ![call.event].items = rest]
                /\ Len(told) <= Len(observers)
                /\ \A i \in DOMAIN told :
                     told[i] = Invocation(observers[i], <<call.event, call.fn>>)
                /\ Done => Len(told) = Len(observers) /\ result = Returned("this")

C12_Witness ==
    /\ Done /\ call.op = "removeListener" /\ call.event = "x" /\ call.fn = "a"
    /\ PreItems = <<"a", "w1">>
    /\ _events["x"].items = <<"a">>
    /\ trace = <<Invocation("a", <<"x", "a">>)>>

\* What the "removeListener" listeners are handed while the entries of items
\* are removed for e from the end, one removal after the other.
RECURSIVE RemovalEvents(_, _, _)
RemovalEvents(e, items, observers) ==
    IF items = <<>> THEN <<>>
    ELSE LET rest == SubSeq(items, 1, Len(items) - 1)
             obs == IF e = "removeListener" THEN rest ELSE observers
         IN  [i \in 1..Len(obs) |-> Invocation(obs[i], <<e, items[Len(items)]>>)]
               \o RemovalEvents(e, rest, observers)

(* C13: during removeAllListeners(name) the sequence for name is what is
   left of it after r removals from the end, the "removeListener" listeners
   have been handed the removed listeners last registered first, the events
   of one removal all before the next removal; when the call returns every
   removal has been reported and the map has no key name. *)
C13_RemoveAllLifo ==
    (call.op = "removeAllListeners" /\ pre.ev[call.event].present)
    => LET e == call.event
           items == PreItems
           n == Len(items)
           observers == pre.ev["removeListener"].items
           all == RemovalEvents(e, items, observers)
           told == Direct(trace)
           left(r) == SubSeq(items, 1, n - r)
           after(r) == Len(all) - Len(RemovalEvents(e, left(r), observers))
       IN  /\ IsPrefix(told, all)
           /\ ~Done => \E r \in 0..n :
                 /\ _events[e].present /\ _events[e].items = left(r)
                 /\ Len(told) <= after(r)
                 /\ r > 0 => Len(told) >= after(r - 1)
           /\ Done => /\ ~_events[e].present
                      /\ told = all
                      /\ result = Returned("this")
                      /\ \A k \in EventNames \ {e} : _events[k] = pre.ev[k]

C13_Witness ==
    /\ Done /\ call.op = "removeAllListeners" /\ call.event = "x"
    /\ PreItems = <<"a", "b", "a">>
    /\ pre.ev["removeListener"].items = <<"a", "a">>
    /\ FnsOf(trace) = <<"a", "a", "a", "a", "a", "a">>
    /\ trace[3].args = <<"x", "b">>
    /\ ~_events["x"].present

\* The topmost activation is the loop of removeAllListeners(event) on an
\* array whose last entry removeListener does not find: the call returns
\* without a splice, listeners.length is what it was, and the loop runs the
\* same iteration again and again.
RemoveAllStuck ==
    /\ stack # <<>>
    /\ Top(stack).op = "removeAllListeners"
    /\ LET f == Top(stack)
           listeners == FrameArray(_events, f)
           current == _events[f.event]
       IN  /\ listeners # <<>>
           /\ IsFunction(listeners[Len(listeners)])
           /\ ~current.present
              \/ ScanBack(wrappers, current.items, listeners[Len(listeners)],
                          Len(current.items)) = 0

(* C14: removeAllListeners(name) terminates: each iteration of its loop
   removes the last entry of the sequence, closures of once included, so
   the loop is never at an entry it cannot remove. *)
C14_RemoveAllTerminates == ~RemoveAllStuck

(* C15: the loop of one emit(e) invokes no listener that was registered for
   e while it was running: every function it invokes was in the sequence
   for e when the call started. *)
C15_AddedNotInvokedThisRound ==
    (call.op = "emit" /\ PreItems # <<>>)
    => \A i \in DOMAIN Direct(trace) : Direct(trace)[i].fn \in Range(PreItems)

(* C16: the loop of one emit(e) invokes no listener after it was removed
   from the sequence for e: a listener the loop has just invoked, and whose
   body changes nothing, is in the sequence for e. *)
C16_RemovedNotInvoked ==
    (call.op = "emit" /\ trace # <<>>)
    => LET last == trace[Len(trace)]
       IN  (last.depth = 1 /\ last.via = "" /\ last.fn \in Inert \cup WrapperIds)
           => last.fn \in Range(_events[call.event].items)

(* C17: the closure of one once(e, f) invokes f at most once: during one
   user call at most once, and then it is fired; never when it was fired
   before the call, also when it is invoked again by a nested emit or after
   reentrant removals; and a fired closure never becomes unfired. *)
C17_OnceAtMostOnce ==
    \A w \in WrapperIds :
        /\ Len(Via(trace, w)) <= 1
        /\ Via(trace, w) # <<>>
           => wrappers[w].fired /\ Via(trace, w)[1].fn = wrappers[w].listener
        /\ pre.wr[w].fired => wrappers[w].fired /\ Via(trace, w) = <<>>

C17_Witness ==
    /\ Done /\ call.op = "emit"
    /\ \E w \in WrapperIds :
         /\ wrappers[w].listener = "reemit"
         /\ Len(Via(trace, w)) = 1
         /\ \E i \in DOMAIN trace : trace[i].fn = w /\ trace[i].depth = 2

(* C18: removeListener(e, f), when the last entry for f in the sequence for
   e is the unfired closure of a once(e, f), removes that closure: from then
   on it is in no sequence, the "removeListener" listeners are handed (e, f)
   and not the closure, f is not invoked through it and it stays unfired;
   and an emit only ever invokes closures that were registered when it
   started, so no later emit reaches the removed one. *)
C18_RemoveMatchesOnceByOriginal ==
    /\ (call.op = "removeListener" /\ call.fn \in Fns /\ PreItems # <<>>)
       => LET w == PreItems[Len(PreItems)]
          IN  (w \in WrapperIds /\ pre.wr[w].listener = call.fn /\ ~pre.wr[w].fired)
              => /\ w \notin Registered(_events)
                 /\ _events[call.event].items = SubSeq(PreItems, 1, Len(PreItems) - 1)
                 /\ Via(trace, w) = <<>>
                 /\ ~wrappers[w].fired
                 /\ \A i \in DOMAIN trace :
                      trace[i].fn # w
                      /\ (trace[i].depth = 1 /\ trace[i].via = "")
                         => trace[i].args = <<call.event, call.fn>>
                 /\ Done => result = Returned("this")
    /\ call.op = "emit"
       => \A i \in DOMAIN trace :
            trace[i].fn \in WrapperIds => trace[i].fn \in Registered(pre.ev)

C18_Witness ==
    /\ Done /\ call.op = "removeListener" /\ call.event = "x" /\ call.fn = "a"
    /\ PreItems = <<"w1">> /\ ~pre.wr["w1"].fired
    /\ _events["x"].items = <<>>
    /\ trace = <<Invocation("a", <<"x", "a">>)>>

(* C19: on(e, f) and once(e, f) hand (e, f), f being the function the user
   gave and never the closure of once, to the listeners that were registered
   for "newListener" when the call started, in their order, each once; as
   long as that emit runs the map is what it was, f not in the sequence for
   e; the entry (f, or the closure whose listener is f) is appended when it
   has returned.  So a listener being registered for "newListener" is not
   invoked by its own registration. *)
C19_NewListenerBeforeAppend ==
    (call.op \in {"addListener", "once"} /\ call.fn \in Fns)
    => LET observers == pre.ev["newListener"].items
           told == Direct(trace)
           items == _events[call.event].items
       IN  /\ Len(told) <= Len(observers)
           /\ \A i \in DOMAIN told :
                told[i] = Invocation(observers[i], <<call.event, call.fn>>)
           /\ ~Done => _events = pre.ev
           /\ Done => /\ Len(told) = Len(observers)
                      /\ result = Returned("this")
                      /\ Len(items) = Len(PreItems) + 1
                      /\ SubSeq(items, 1, Len(PreItems)) = PreItems
                      /\ Original(wrappers, items[Len(items)]) = call.fn
                      /\ call.op = "once" <=> items[Len(items)] \in WrapperIds

C19_Witness ==
    /\ Done /\ call.op = "once" /\ call.event = "newListener" /\ call.fn = "a"
    /\ PreItems = <<"a">>
    /\ trace = <<Invocation("a", <<"newListener", "a">>)>>
    /\ Len(_events["newListener"].items) = 2
    /\ _events["newListener"].items[2] \in WrapperIds

(* C20: when a listener throws during emit(e), the emit ends at once with
   what the listener threw: the listeners before it were invoked in their
   order, the throwing one is the last function invoked in the round, and
   the map is what it was when its turn came. *)
C20_ThrowAbortsRound ==
    (call.op = "emit" /\ \E i \in DOMAIN trace : Body(trace[i].fn).op = "throw")
    => LET i == CHOOSE j \in DOMAIN trace : Body(trace[j].fn).op = "throw"
                   /\ \A k \in 1..(j - 1) : Body(trace[k].fn).op # "throw"
           ran == FnsOf(Direct(trace))
       IN  /\ Done
           /\ result = Thrown(trace[i].fn)
           /\ Len(trace) = i
           /\ IsPrefix(ran, PreItems)
           /\ trace[i].args = call.args
           /\ _events = pre.ev

C20_Witness ==
    /\ Done /\ call.op = "emit" /\ call.event = "x"
    /\ PreItems = <<"a", "boom", "a">>
    /\ FnsOf(trace) = <<"a", "boom">>
    /\ result = Thrown("boom")
    /\ _events = pre.ev

====
